---- MODULE Spec2Model ----
(***************************************************************************)
(* Model of chess-cli-py.                                                  *)
(*                                                                         *)
(*  - Board.perform_movement, with the piece classes it is defined next    *)
(*    to (src/chess.py), is the specification Spec.                        *)
(*  - Piece.move of the refactored piece classes (src/models.py and        *)
(*    src/utils.py) is the specification SpecPiece.                        *)
(*                                                                         *)
(* A position is the pair <<x, y>>: x is the row (0 at the top), y is the  *)
(* column.  Python's position[0] / position.x is p[1] here, position[1] /  *)
(* position.y is p[2].  A piece object is identified by its index in the   *)
(* list Board.pieces.                                                      *)
(***************************************************************************)
EXTENDS Integers, Sequences, FiniteSets, TLC

VARIABLES
    pieces,     \* Board.pieces: sequence of [position, color, category]
    last,       \* the most recent Board.perform_movement call: its request, the
                \* board and the movers before it, and its outcome
    ncalls,     \* number of perform_movement calls made so far
    piece,      \* the piece object a models.py move() is applied to
    plast,      \* the most recent models.py move() call and its outcome
    movers,     \* indices of the pieces some perform_movement call has moved
    glast,      \* the most recent models.py get_path() call and its outcome
    parsed,     \* the expression given to AlgebraicExpressionParser.parse and
                \* what the call made of it
    current_turn,   \* Game.current_turn
    played,     \* Game.play: the most recent iteration of its loop, the
                \* number of iterations so far, whether the loop still runs,
                \* and the colours of the moves applied so far
    mlast       \* the most recent models.py get_possible_moves() call and
                \* the requests it listed

vars ==
    <<pieces, last, ncalls, piece, plast, movers, glast, parsed, current_turn, played,
      mlast>>

----------------------------------------------------------------------------
(* Bounds of the model. *)

\* perform_movement calls per behaviour
MaxCalls == 2
\* requested destinations go this far beyond the 8x8 grid on every side
OutMargin == 1
\* Board requests: destinations lie within this many rows/columns of the
\* corner (7, 0) the roster of Init stands in
DestSpan == 3
\* iterations of a get_path loop after which it is reported as not ending
PathFuel == 16
\* characters of the longest expression given to parse (queenside
\* castling, five characters, is given besides)
MaxExprLen == 4
\* lines typed by the players in one run of Game.play
MaxInputs == 4

----------------------------------------------------------------------------
(* Enumerations (src/chess.py and src/models.py hold the same values). *)

WHITE == "WHITE"
BLACK == "BLACK"
Color == {WHITE, BLACK}

PAWN == "P"
ROOK == "R"
KNIGHT == "N"
BISHOP == "B"
QUEEN == "Q"
KING == "K"
Category == {PAWN, ROOK, KNIGHT, BISHOP, QUEEN, KING}

MOVE == "m"
CAPTURE == "x"
CASTLING_KING == "O-O"
CASTLING_QUEEN == "O-O-O"
CHECK == "+"
CHECKMATE == "#"
PROMOTE == "="
Action == {MOVE, CAPTURE, CASTLING_KING, CASTLING_QUEEN, CHECK, CHECKMATE, PROMOTE}

\* Python's None, for an absent next_position, current_row, current_col or
\* next_category.
\* A present current_row, current_col or next_category r is the one-element
\* tuple <<r>>.
None == <<>>

Movement(category, action, next_position, current_row, current_col, next_category) ==
    [category |-> category, action |-> action, next_position |-> next_position,
     current_row |-> current_row, current_col |-> current_col,
     next_category |-> next_category]

Abs(n) == IF n < 0 THEN -n ELSE n

----------------------------------------------------------------------------
(* src/chess.py: the piece classes Board works on. *)

\* Mutant: the test of the bottom edge is missing.
Piece_is_outside_board_no_bottom_edge(mv) ==
    \/ mv.next_position[1] < 0
    \/ mv.next_position[2] < 0
    \/ mv.next_position[2] > 7

Piece_is_outside_board(mv) ==
    \/ mv.next_position[1] < 0
    \/ mv.next_position[1] > 7
    \/ mv.next_position[2] < 0
    \/ mv.next_position[2] > 7

ChessPawn_is_first_move(p) ==
    \/ (p.position[1] = 6 /\ p.color = WHITE)
    \/ (p.position[1] = 1 /\ p.color = BLACK)

ChessPawn_is_valid_move(p, mv) ==
    IF ChessPawn_is_first_move(p)
    THEN \/ (p.color = BLACK /\ mv.next_position[1] \in {3, 2})
         \/ (p.color = WHITE /\ mv.next_position[1] \in {4, 5})
    ELSE \/ (p.color = BLACK /\ p.position[1] + 1 = mv.next_position[1])
         \/ (p.color = WHITE /\ p.position[1] - 1 = mv.next_position[1])

Chess_is_vertical_move(p, mv) ==
    p.position[2] = mv.next_position[2] /\ p.position[1] # mv.next_position[1]

Chess_is_horizontal_move(p, mv) ==
    p.position[1] = mv.next_position[1] /\ p.position[2] # mv.next_position[2]

ChessRook_is_valid_move(p, mv) ==
    Chess_is_horizontal_move(p, mv) \/ Chess_is_vertical_move(p, mv)

Knight_possible_moves ==
    << <<-2, 1>>, <<-1, 2>>, <<1, 2>>, <<2, 1>>,
       <<2, -1>>, <<1, -2>>, <<-1, -2>>, <<-2, -1>> >>

ChessKnight_is_valid_move(p, mv) ==
    \E k \in 1..Len(Knight_possible_moves) :
        <<p.position[1] + Knight_possible_moves[k][1],
          p.position[2] + Knight_possible_moves[k][2]>> = mv.next_position

ChessBishop_is_valid_move(p, mv) ==
    LET p1 == Abs(p.position[1] - mv.next_position[1])
        p2 == Abs(p.position[2] - mv.next_position[2])
    IN  p1 = p2

ChessQueen_is_diagonal_move(p, mv) ==
    LET p1 == Abs(p.position[1] - mv.next_position[1])
        p2 == Abs(p.position[2] - mv.next_position[2])
    IN  p1 = p2

ChessQueen_is_valid_move(p, mv) ==
    LET line_move == Chess_is_horizontal_move(p, mv) \/ Chess_is_vertical_move(p, mv)
        diag_move == ChessQueen_is_diagonal_move(p, mv)
    IN  line_move \/ diag_move

ChessKing_subtract_positions(p, mv) ==
    <<Abs(p.position[1] - mv.next_position[1]),
      Abs(p.position[2] - mv.next_position[2])>>

ChessKing_is_diagonal_move(p, mv) ==
    LET s == ChessKing_subtract_positions(p, mv) IN s[1] = s[2]

ChessKing_is_one_step(p, mv) ==
    LET s == ChessKing_subtract_positions(p, mv) IN (s[1] + s[2]) <= 2

ChessKing_is_valid_move(p, mv) ==
    LET line_move == Chess_is_horizontal_move(p, mv) \/ Chess_is_vertical_move(p, mv)
        diag_move == ChessKing_is_diagonal_move(p, mv)
        is_one_step == ChessKing_is_one_step(p, mv)
    IN  (line_move \/ diag_move) /\ is_one_step

\* _is_valid_move of the class of piece p
Chess_is_valid_move(p, mv) ==
    CASE p.category = PAWN   -> ChessPawn_is_valid_move(p, mv)
      [] p.category = ROOK   -> ChessRook_is_valid_move(p, mv)
      [] p.category = KNIGHT -> ChessKnight_is_valid_move(p, mv)
      [] p.category = BISHOP -> ChessBishop_is_valid_move(p, mv)
      [] p.category = QUEEN  -> ChessQueen_is_valid_move(p, mv)
      [] p.category = KING   -> ChessKing_is_valid_move(p, mv)

\* move() of the class of piece p: whether it raises InvalidMovement, and
\* the object's position afterwards.  The six classes share the body; only
\* Pawn names the CAPTURE branch, which does nothing.
Chess_move(p, mv) ==
    IF Piece_is_outside_board(mv)
    THEN [raises |-> TRUE, position |-> p.position]
    ELSE IF mv.action = MOVE
         THEN IF ~Chess_is_valid_move(p, mv)
              THEN [raises |-> TRUE, position |-> p.position]
              ELSE [raises |-> FALSE, position |-> mv.next_position]
         ELSE [raises |-> FALSE, position |-> p.position]

\* One iteration of the while loop of get_path, from the square cur.
ChessPawn_get_path_step(p, mv, cur) ==
    IF p.color = WHITE THEN <<cur[1] - 1, cur[2]>> ELSE <<cur[1] + 1, cur[2]>>

ChessRook_get_path_step(p, mv, cur) ==
    IF Chess_is_vertical_move(p, mv)
    THEN IF cur[1] < mv.next_position[1]
         THEN <<cur[1] + 1, cur[2]>> ELSE <<cur[1] - 1, cur[2]>>
    ELSE IF cur[2] < mv.next_position[2]
         THEN <<cur[1], cur[2] + 1>> ELSE <<cur[1], cur[2] - 1>>

ChessBishop_get_path_step(p, mv, cur) ==
    LET nx == mv.next_position IN
    IF cur[1] < nx[1] /\ cur[2] > nx[2] THEN <<cur[1] + 1, cur[2] - 1>>
    ELSE IF cur[1] > nx[1] /\ cur[2] > nx[2] THEN <<cur[1] - 1, cur[2] - 1>>
    ELSE IF cur[1] > nx[1] /\ cur[2] < nx[2] THEN <<cur[1] - 1, cur[2] + 1>>
    ELSE IF cur[1] < nx[1] /\ cur[2] < nx[2] THEN <<cur[1] + 1, cur[2] + 1>>
    ELSE cur

\* Queen.get_path and King.get_path have the same loop body.
ChessQueen_get_path_step(p, mv, cur) ==
    LET nx == mv.next_position IN
    IF cur[1] < nx[1] /\ cur[2] > nx[2] THEN <<cur[1] + 1, cur[2] - 1>>
    ELSE IF cur[1] > nx[1] /\ cur[2] > nx[2] THEN <<cur[1] - 1, cur[2] - 1>>
    ELSE IF cur[1] > nx[1] /\ cur[2] < nx[2] THEN <<cur[1] - 1, cur[2] + 1>>
    ELSE IF cur[1] < nx[1] /\ cur[2] < nx[2] THEN <<cur[1] + 1, cur[2] + 1>>
    ELSE IF Chess_is_horizontal_move(p, mv) /\ cur[2] < nx[2] THEN <<cur[1], cur[2] + 1>>
    ELSE IF Chess_is_horizontal_move(p, mv) /\ cur[2] > nx[2] THEN <<cur[1], cur[2] - 1>>
    ELSE IF Chess_is_vertical_move(p, mv) /\ cur[1] < nx[1] THEN <<cur[1] + 1, cur[2]>>
    ELSE IF Chess_is_vertical_move(p, mv) /\ cur[1] > nx[1] THEN <<cur[1] - 1, cur[2]>>
    ELSE cur

Chess_get_path_step(p, mv, cur) ==
    CASE p.category = PAWN   -> ChessPawn_get_path_step(p, mv, cur)
      [] p.category = ROOK   -> ChessRook_get_path_step(p, mv, cur)
      [] p.category = BISHOP -> ChessBishop_get_path_step(p, mv, cur)
      [] p.category = QUEEN  -> ChessQueen_get_path_step(p, mv, cur)
      [] p.category = KING   -> ChessQueen_get_path_step(p, mv, cur)

\* while curr_position != move.next_position: step, append.  status is
\* "loops" when the loop is still running after PathFuel iterations.
RECURSIVE Chess_get_path_loop(_, _, _, _, _)
Chess_get_path_loop(p, mv, cur, path, fuel) ==
    IF cur = mv.next_position THEN [status |-> "returns", path |-> path]
    ELSE IF fuel = 0 THEN [status |-> "loops", path |-> path]
    ELSE LET nxt == Chess_get_path_step(p, mv, cur)
         IN  Chess_get_path_loop(p, mv, nxt, Append(path, nxt), fuel - 1)

\* get_path of the class of piece p: status "returns" with the path,
\* "raises" (InvalidMovement) or "loops".
Chess_get_path(p, mv) ==
    IF p.category = KNIGHT THEN [status |-> "returns", path |-> <<>>]
    ELSE IF ~Chess_is_valid_move(p, mv) \/ Piece_is_outside_board(mv)
         THEN [status |-> "raises", path |-> <<>>]
         ELSE Chess_get_path_loop(p, mv, p.position, <<>>, PathFuel)

----------------------------------------------------------------------------
(* src/chess.py: Board. *)

InSeq(x, s) == \E k \in 1..Len(s) : s[k] = x

\* Mutant: the loop returns on its first piece, whatever square it is on.
Board_is_square_empty_first_only(ps, position) ==
    Len(ps) = 0 \/ ps[1].position # position

Board_is_square_empty(ps, position) ==
    ~\E k \in 1..Len(ps) : ps[k].position = position

\* The candidates as indices into Board.pieces, in list order.  isNone: the
\* method returned None instead of a list.  typeError: next_position is
\* None and the Pawn filter subscripts it.
Board_get_possible_pieces(ps, mv, color) ==
    LET idx == [k \in 1..Len(ps) |-> k]
        possible_pieces ==
            SelectSeq(idx, LAMBDA k : ps[k].category = mv.category /\ ps[k].color = color)
    IN  IF mv.category = PAWN
        THEN IF mv.next_position = None
             THEN [typeError |-> possible_pieces # <<>>, isNone |-> FALSE, list |-> <<>>]
             ELSE [typeError |-> FALSE, isNone |-> FALSE,
                   list |-> SelectSeq(possible_pieces,
                                LAMBDA k : ps[k].position[2] = mv.next_position[2])]
        ELSE IF mv.current_col # None \/ mv.current_row # None
             THEN [typeError |-> FALSE, isNone |-> TRUE, list |-> <<>>]
             ELSE [typeError |-> FALSE, isNone |-> FALSE, list |-> possible_pieces]

\* Mutant: only the last square of the path is looked at.
Board_piece_in_the_way_last_only(ps, i, mv) ==
    LET r == Chess_get_path(ps[i], mv)
    IN  [status |-> r.status,
         answer |-> /\ r.path # <<>>
                    /\ \E j \in 1..Len(ps) : j # i /\ ps[j].position = r.path[Len(r.path)]]

\* status "returns" with the answer, "raises" or "loops" (from get_path)
Board_piece_in_the_way(ps, i, mv) ==
    LET r == Chess_get_path(ps[i], mv)
    IN  [status |-> r.status,
         answer |-> \E j \in 1..Len(ps) : j # i /\ InSeq(ps[j].position, r.path)]

\* Mutant: a candidate that is skipped resets the moved flag.
RECURSIVE Board_move_loop_flag_reset(_, _, _, _, _)
Board_move_loop_flag_reset(ps, cands, k, mv, moved) ==
    IF k > Len(cands)
    THEN [pieces |-> ps, moved |-> moved, hangs |-> FALSE]
    ELSE LET i == cands[k]
             way == IF mv.category # KNIGHT
                    THEN Board_piece_in_the_way(ps, i, mv)
                    ELSE [status |-> "returns", answer |-> FALSE]
             m == Chess_move(ps[i], mv)
         IN  IF way.status = "loops"
             THEN [pieces |-> ps, moved |-> moved, hangs |-> TRUE]
             ELSE IF way.status = "raises" \/ way.answer \/ m.raises
             THEN Board_move_loop_flag_reset(ps, cands, k + 1, mv, FALSE)
             ELSE Board_move_loop_flag_reset([ps EXCEPT ![i].position = m.position],
                                             cands, k + 1, mv, TRUE)

\* The for loop of perform_movement from candidate number k on.  ps is the
\* piece list as the earlier iterations left it, moved the flag of the code;
\* hangs: a get_path call did not return.
RECURSIVE Board_move_loop(_, _, _, _, _)
Board_move_loop(ps, cands, k, mv, moved) ==
    IF k > Len(cands)
    THEN [pieces |-> ps, moved |-> moved, hangs |-> FALSE]
    ELSE LET i == cands[k]
             way == IF mv.category # KNIGHT
                    THEN Board_piece_in_the_way(ps, i, mv)
                    ELSE [status |-> "returns", answer |-> FALSE]
             m == Chess_move(ps[i], mv)
         IN  IF way.status = "loops"
             THEN [pieces |-> ps, moved |-> moved, hangs |-> TRUE]
             ELSE IF way.status = "raises" \/ way.answer \/ m.raises
             THEN Board_move_loop(ps, cands, k + 1, mv, moved)
             ELSE Board_move_loop([ps EXCEPT ![i].position = m.position], cands, k + 1,
                                  mv, TRUE)

\* Board.perform_movement(move, color) on the piece list ps: the piece list
\* afterwards and how the call ends: "returns", "InvalidMovement",
\* "TypeError" or "hangs".
\* Board.__init__ stores the roster and nothing else, and no method adds an
\* attribute: the moves the Board has recorded are none, in every state.
Board_history_movements == <<>>

\* Mutant: a castling request is carried out whenever the King and the
\* Rook stand on their squares with nothing between them.
Board_perform_movement_castles_ungated(ps, mv, color) ==
    LET possible_pieces == Board_get_possible_pieces(ps, mv, color)
        fail(how) == [pieces |-> ps, outcome |-> how]
        rank == IF color = WHITE THEN 7 ELSE 0
        kingside == mv.action = CASTLING_KING
        kings == {k \in 1..Len(ps) : /\ ps[k].category = KING /\ ps[k].color = color
                                     /\ ps[k].position = <<rank, 4>>}
        rooks == {r \in 1..Len(ps) : /\ ps[r].category = ROOK /\ ps[r].color = color
                                     /\ ps[r].position = <<rank, IF kingside THEN 7 ELSE 0>>}
        between == IF kingside THEN {5, 6} ELSE {1, 2, 3}
    IN  IF /\ mv.action \in {CASTLING_KING, CASTLING_QUEEN}
           /\ kings # {} /\ rooks # {}
           /\ \A f \in between : Board_is_square_empty(ps, <<rank, f>>)
        THEN LET k == CHOOSE k \in kings : TRUE
                 r == CHOOSE r \in rooks : TRUE
             IN  [pieces |-> [ps EXCEPT ![k].position = <<rank, IF kingside THEN 6 ELSE 2>>,
                                        ![r].position = <<rank, IF kingside THEN 5 ELSE 3>>],
                  outcome |-> "returns"]
        ELSE IF possible_pieces.typeError THEN fail("TypeError")
        ELSE IF mv.action = MOVE /\ Board_is_square_empty(ps, mv.next_position)
        THEN IF possible_pieces.isNone THEN fail("TypeError")
             ELSE LET r == Board_move_loop(ps, possible_pieces.list, 1, mv, FALSE)
                  IN  IF r.hangs
                      THEN [pieces |-> r.pieces, outcome |-> "hangs"]
                      ELSE IF ~r.moved
                      THEN [pieces |-> r.pieces, outcome |-> "InvalidMovement"]
                      ELSE [pieces |-> r.pieces, outcome |-> "returns"]
        ELSE fail("InvalidMovement")

Board_perform_movement(ps, mv, color) ==
    LET possible_pieces == Board_get_possible_pieces(ps, mv, color)
        fail(how) == [pieces |-> ps, outcome |-> how]
    IN  IF possible_pieces.typeError THEN fail("TypeError")
        ELSE IF mv.action = MOVE /\ Board_is_square_empty(ps, mv.next_position)
        THEN IF possible_pieces.isNone THEN fail("TypeError")
             ELSE LET r == Board_move_loop(ps, possible_pieces.list, 1, mv, FALSE)
                  IN  IF r.hangs
                      THEN [pieces |-> r.pieces, outcome |-> "hangs"]
                      ELSE IF ~r.moved
                      THEN [pieces |-> r.pieces, outcome |-> "InvalidMovement"]
                      ELSE [pieces |-> r.pieces, outcome |-> "returns"]
        ELSE fail("InvalidMovement")

----------------------------------------------------------------------------
(* src/utils.py and src/models.py: the refactored piece classes. *)

\* Mutant: the right edge is not tested.
is_outside_board_no_right_edge(mv) ==
    \/ mv.next_position[1] < 0
    \/ mv.next_position[1] > 7
    \/ mv.next_position[2] < 0

is_outside_board(mv) ==
    \/ mv.next_position[1] < 0
    \/ mv.next_position[1] > 7
    \/ mv.next_position[2] < 0
    \/ mv.next_position[2] > 7

is_vertical_move(position, mv) ==
    position[2] = mv.next_position[2] /\ position[1] # mv.next_position[1]

\* Mutant: the squares are not required to differ.
is_horizontal_move_same_row(position, mv) ==
    position[1] = mv.next_position[1]

is_horizontal_move(position, mv) ==
    position[1] = mv.next_position[1] /\ position[2] # mv.next_position[2]

subtract_positions(position, mv) ==
    <<Abs(position[1] - mv.next_position[1]), Abs(position[2] - mv.next_position[2])>>

is_diagonal_move(position, mv) ==
    LET s == subtract_positions(position, mv) IN s[1] = s[2]

\* Mutant: the bound is exclusive.
is_one_step_exclusive(position, mv) ==
    LET s == subtract_positions(position, mv) IN (s[1] + s[2]) < 2

is_one_step(position, mv) ==
    LET s == subtract_positions(position, mv) IN (s[1] + s[2]) <= 2

Pawn_is_first_move(p) ==
    \/ (p.position[1] = 6 /\ p.color = WHITE)
    \/ (p.position[1] = 1 /\ p.color = BLACK)

Pawn_is_valid_move(p, mv) ==
    IF Pawn_is_first_move(p)
    THEN \/ (p.color = BLACK /\ mv.next_position[1] \in {3, 2})
         \/ (p.color = WHITE /\ mv.next_position[1] \in {4, 5})
    ELSE \/ (p.color = BLACK /\ p.position[1] + 1 = mv.next_position[1])
         \/ (p.color = WHITE /\ p.position[1] - 1 = mv.next_position[1])

\* Mutant: BLACK captures in WHITE's direction.
Pawn_is_valid_capture_one_direction(p, mv) ==
    \/ (p.position[1] - 1 = mv.next_position[1] /\ p.position[2] - 1 = mv.next_position[2])
    \/ (p.position[1] - 1 = mv.next_position[1] /\ p.position[2] + 1 = mv.next_position[2])

Pawn_is_valid_capture(p, mv) ==
    IF p.color = BLACK
    THEN \/ (p.position[1] + 1 = mv.next_position[1] /\ p.position[2] - 1 = mv.next_position[2])
         \/ (p.position[1] + 1 = mv.next_position[1] /\ p.position[2] + 1 = mv.next_position[2])
    ELSE \/ (p.position[1] - 1 = mv.next_position[1] /\ p.position[2] - 1 = mv.next_position[2])
         \/ (p.position[1] - 1 = mv.next_position[1] /\ p.position[2] + 1 = mv.next_position[2])

Rook_is_valid_move(p, mv) ==
    is_horizontal_move(p.position, mv) \/ is_vertical_move(p.position, mv)

Knight_possible_relative_positions ==
    << <<-2, 1>>, <<-1, 2>>, <<1, 2>>, <<2, 1>>,
       <<2, -1>>, <<1, -2>>, <<-1, -2>>, <<-2, -1>> >>

Knight_is_valid_move(p, mv) ==
    \E k \in 1..Len(Knight_possible_relative_positions) :
        <<p.position[1] + Knight_possible_relative_positions[k][1],
          p.position[2] + Knight_possible_relative_positions[k][2]>> = mv.next_position

Bishop_is_valid_move(p, mv) ==
    LET p1 == Abs(p.position[1] - mv.next_position[1])
        p2 == Abs(p.position[2] - mv.next_position[2])
    IN  p1 = p2

Queen_is_valid_move(p, mv) ==
    LET line_move == is_horizontal_move(p.position, mv) \/ is_vertical_move(p.position, mv)
        diag_move == is_diagonal_move(p.position, mv)
    IN  line_move \/ diag_move

King_is_valid_move(p, mv) ==
    LET line_move == is_horizontal_move(p.position, mv) \/ is_vertical_move(p.position, mv)
        diag_move == is_diagonal_move(p.position, mv)
        one_step == is_one_step(p.position, mv)
    IN  (line_move \/ diag_move) /\ one_step

\* The outcome of a move() call: whether it raises InvalidMovement, and the
\* object's position afterwards.
Raises(p) == [raises |-> TRUE, position |-> p.position]
MovesTo(mv) == [raises |-> FALSE, position |-> mv.next_position]

Pawn_move(p, mv) ==
    IF is_outside_board(mv) THEN Raises(p)
    ELSE IF mv.action = MOVE
         THEN IF ~Pawn_is_valid_move(p, mv) THEN Raises(p) ELSE MovesTo(mv)
    ELSE IF mv.action = CAPTURE
         THEN IF ~Pawn_is_valid_capture(p, mv) THEN Raises(p) ELSE MovesTo(mv)
    ELSE [raises |-> FALSE, position |-> p.position]

Rook_move(p, mv) ==
    IF is_outside_board(mv) THEN Raises(p)
    ELSE IF ~Rook_is_valid_move(p, mv) THEN Raises(p)
    ELSE MovesTo(mv)

\* Mutant: the new position is never assigned.
Knight_move_keeps_position(p, mv) ==
    IF is_outside_board(mv) THEN Raises(p)
    ELSE IF ~Knight_is_valid_move(p, mv) THEN Raises(p)
    ELSE [raises |-> FALSE, position |-> p.position]

Knight_move(p, mv) ==
    IF is_outside_board(mv) THEN Raises(p)
    ELSE IF ~Knight_is_valid_move(p, mv) THEN Raises(p)
    ELSE MovesTo(mv)

Bishop_move(p, mv) ==
    IF is_outside_board(mv) THEN Raises(p)
    ELSE IF ~Bishop_is_valid_move(p, mv) THEN Raises(p)
    ELSE MovesTo(mv)

Queen_move(p, mv) ==
    IF is_outside_board(mv) THEN Raises(p)
    ELSE IF ~Queen_is_valid_move(p, mv) THEN Raises(p)
    ELSE MovesTo(mv)

King_move(p, mv) ==
    IF is_outside_board(mv) THEN Raises(p)
    ELSE IF ~King_is_valid_move(p, mv) THEN Raises(p)
    ELSE MovesTo(mv)

\* p.move(mv), dispatched on the class of p
Piece_move(p, mv) ==
    CASE p.category = PAWN   -> Pawn_move(p, mv)
      [] p.category = ROOK   -> Rook_move(p, mv)
      [] p.category = KNIGHT -> Knight_move(p, mv)
      [] p.category = BISHOP -> Bishop_move(p, mv)
      [] p.category = QUEEN  -> Queen_move(p, mv)
      [] p.category = KING   -> King_move(p, mv)

\* get_path of src/models.py: one iteration of each class's while loop.
Pawn_get_path_step(p, mv, cur) ==
    IF p.color = WHITE THEN <<cur[1] - 1, cur[2]>> ELSE <<cur[1] + 1, cur[2]>>

Rook_get_path_step(p, mv, cur) ==
    IF is_vertical_move(p.position, mv)
    THEN IF cur[1] < mv.next_position[1]
         THEN <<cur[1] + 1, cur[2]>> ELSE <<cur[1] - 1, cur[2]>>
    ELSE IF cur[2] < mv.next_position[2]
         THEN <<cur[1], cur[2] + 1>> ELSE <<cur[1], cur[2] - 1>>

Bishop_get_path_step(p, mv, cur) ==
    LET nx == mv.next_position IN
    IF cur[1] < nx[1] /\ cur[2] > nx[2] THEN <<cur[1] + 1, cur[2] - 1>>
    ELSE IF cur[1] > nx[1] /\ cur[2] > nx[2] THEN <<cur[1] - 1, cur[2] - 1>>
    ELSE IF cur[1] > nx[1] /\ cur[2] < nx[2] THEN <<cur[1] - 1, cur[2] + 1>>
    ELSE IF cur[1] < nx[1] /\ cur[2] < nx[2] THEN <<cur[1] + 1, cur[2] + 1>>
    ELSE cur

Queen_get_path_step(p, mv, cur) ==
    LET nx == mv.next_position IN
    IF cur[1] < nx[1] /\ cur[2] > nx[2] THEN <<cur[1] + 1, cur[2] - 1>>
    ELSE IF cur[1] > nx[1] /\ cur[2] > nx[2] THEN <<cur[1] - 1, cur[2] - 1>>
    ELSE IF cur[1] > nx[1] /\ cur[2] < nx[2] THEN <<cur[1] - 1, cur[2] + 1>>
    ELSE IF cur[1] < nx[1] /\ cur[2] < nx[2] THEN <<cur[1] + 1, cur[2] + 1>>
    ELSE IF is_horizontal_move(p.position, mv) /\ cur[2] < nx[2] THEN <<cur[1], cur[2] + 1>>
    ELSE IF is_horizontal_move(p.position, mv) /\ cur[2] > nx[2] THEN <<cur[1], cur[2] - 1>>
    ELSE IF is_vertical_move(p.position, mv) /\ cur[1] < nx[1] THEN <<cur[1] + 1, cur[2]>>
    ELSE IF is_vertical_move(p.position, mv) /\ cur[1] > nx[1] THEN <<cur[1] - 1, cur[2]>>
    ELSE cur

\* dx // abs(dx) is the sign of dx
King_get_path_step(p, mv, cur) ==
    LET dx == mv.next_position[1] - cur[1]
        dy == mv.next_position[2] - cur[2]
        direction_x == IF dx = 0 THEN 0 ELSE IF dx > 0 THEN 1 ELSE -1
        direction_y == IF dy = 0 THEN 0 ELSE IF dy > 0 THEN 1 ELSE -1
    IN  <<cur[1] + direction_x, cur[2] + direction_y>>

Piece_get_path_step(p, mv, cur) ==
    CASE p.category = PAWN   -> Pawn_get_path_step(p, mv, cur)
      [] p.category = ROOK   -> Rook_get_path_step(p, mv, cur)
      [] p.category = BISHOP -> Bishop_get_path_step(p, mv, cur)
      [] p.category = QUEEN  -> Queen_get_path_step(p, mv, cur)
      [] p.category = KING   -> King_get_path_step(p, mv, cur)

\* Mutant: the square is appended before the step is taken.
RECURSIVE Piece_get_path_loop_appends_first(_, _, _, _, _)
Piece_get_path_loop_appends_first(p, mv, cur, path, fuel) ==
    IF cur = mv.next_position THEN [status |-> "returns", path |-> path]
    ELSE IF fuel = 0 THEN [status |-> "loops", path |-> path]
    ELSE LET nxt == Piece_get_path_step(p, mv, cur)
         IN  Piece_get_path_loop_appends_first(p, mv, nxt, Append(path, cur), fuel - 1)

\* while curr_position != move.next_position: step, append.  status is
\* "loops" when the loop is still running after PathFuel iterations.
RECURSIVE Piece_get_path_loop(_, _, _, _, _)
Piece_get_path_loop(p, mv, cur, path, fuel) ==
    IF cur = mv.next_position THEN [status |-> "returns", path |-> path]
    ELSE IF fuel = 0 THEN [status |-> "loops", path |-> path]
    ELSE LET nxt == Piece_get_path_step(p, mv, cur)
         IN  Piece_get_path_loop(p, mv, nxt, Append(path, nxt), fuel - 1)

\* The test each get_path makes before its loop
Piece_get_path_refuses(p, mv) ==
    CASE p.category = PAWN   -> ~Pawn_is_valid_move(p, mv) \/ is_outside_board(mv)
      [] p.category = ROOK   -> ~Rook_is_valid_move(p, mv) \/ is_outside_board(mv)
      [] p.category = BISHOP -> ~Bishop_is_valid_move(p, mv) \/ is_outside_board(mv)
      [] p.category = QUEEN  -> ~Queen_is_valid_move(p, mv) \/ is_outside_board(mv)
      [] p.category = KING   -> ~King_is_valid_move(p, mv)

\* get_path of the class of piece p: status "returns" with the path,
\* "raises" (InvalidMovement) or "loops".
Piece_get_path(p, mv) ==
    IF p.category = KNIGHT THEN [status |-> "returns", path |-> <<>>]
    ELSE IF Piece_get_path_refuses(p, mv)
         THEN [status |-> "raises", path |-> <<>>]
         ELSE Piece_get_path_loop(p, mv, p.position, <<>>, PathFuel)

\* get_possible_moves: the requests listed, as a set (the claims made of
\* the list do not depend on its order).

\* "0 <= next_pos.x < 8 and 0 <= next_pos.y < 8"
OnBoard(next_pos) == 0 <= next_pos[1] /\ next_pos[1] < 8 /\ 0 <= next_pos[2] /\ next_pos[2] < 8

MoveAndCapture(category, next_pos) ==
    {Movement(category, a, next_pos, None, None, None) : a \in {MOVE, CAPTURE}}

Pawn_get_possible_moves(p) ==
    LET x == p.position[1]
        y == p.position[2]
        dx == IF p.color = WHITE THEN -1 ELSE 1
    IN  {Movement(PAWN, MOVE, <<x + dx, y>>, None, None, None)}
        \cup (IF Pawn_is_first_move(p)
              THEN {Movement(PAWN, MOVE, <<x + 2 * dx, y>>, None, None, None)}
              ELSE {})
        \cup {capture_move \in {Movement(PAWN, CAPTURE, <<x + dx, y + dy>>, None, None, None) :
                                   dy \in {-1, 1}} :
                 ~is_outside_board(capture_move)}

Rook_get_possible_moves(p) ==
    UNION {MoveAndCapture(ROOK, <<p.position[1], i>>) : i \in (0..7) \ {p.position[2]}}
    \cup UNION {MoveAndCapture(ROOK, <<i, p.position[2]>>) : i \in (0..7) \ {p.position[1]}}

Knight_get_possible_moves(p) ==
    UNION {MoveAndCapture(KNIGHT, next_pos) :
              next_pos \in {d \in {<<p.position[1] + Knight_possible_relative_positions[k][1],
                                     p.position[2] + Knight_possible_relative_positions[k][2]>> :
                                       k \in 1..Len(Knight_possible_relative_positions)} :
                               OnBoard(d)}}

\* The squares of one direction, up to the first one off the board, where
\* the loop over the distances breaks
Ray(p, dx, dy) ==
    {<<p.position[1] + dx * i, p.position[2] + dy * i>> :
        i \in {n \in 1..7 :
                 \A j \in 1..n : OnBoard(<<p.position[1] + dx * j, p.position[2] + dy * j>>)}}

Bishop_get_possible_moves(p) ==
    UNION {MoveAndCapture(BISHOP, next_pos) :
              next_pos \in UNION {Ray(p, d[1], d[2]) :
                                     d \in {<<1, 1>>, <<1, -1>>, <<-1, 1>>, <<-1, -1>>}}}

Queen_get_possible_moves(p) ==
    UNION {MoveAndCapture(QUEEN, next_pos) :
              next_pos \in UNION {Ray(p, d[1], d[2]) :
                                     d \in {<<1, 1>>, <<1, -1>>, <<-1, 1>>, <<-1, -1>>,
                                            <<1, 0>>, <<-1, 0>>, <<0, 1>>, <<0, -1>>}}}

King_get_possible_moves(p) ==
    UNION {MoveAndCapture(KING, next_pos) :
              next_pos \in {d \in {<<p.position[1] + dx, p.position[2] + dy>> :
                                      dx \in -1..1, dy \in -1..1} :
                               d # p.position /\ OnBoard(d)}}

Piece_get_possible_moves(p) ==
    CASE p.category = PAWN -> Pawn_get_possible_moves(p)
      [] p.category = ROOK -> Rook_get_possible_moves(p)
      [] p.category = KNIGHT -> Knight_get_possible_moves(p)
      [] p.category = BISHOP -> Bishop_get_possible_moves(p)
      [] p.category = QUEEN -> Queen_get_possible_moves(p)
      [] p.category = KING -> King_get_possible_moves(p)

----------------------------------------------------------------------------
(* AlgebraicExpressionParser (src/algebraic_expression_parser.py and,     *)
(* with tuples for Position, src/chess.py).  An expression is a sequence  *)
(* of one-character strings; expr[k] of the source is At(expr, k).        *)

\* ord(): the code points of the characters the model's expressions use
CodePoints ==
    ("#" :> 35) @@ ("+" :> 43) @@ ("-" :> 45) @@ ("=" :> 61)
    @@ ("0" :> 48) @@ ("1" :> 49) @@ ("2" :> 50) @@ ("3" :> 51) @@ ("4" :> 52)
    @@ ("5" :> 53) @@ ("6" :> 54) @@ ("7" :> 55) @@ ("8" :> 56) @@ ("9" :> 57)
    @@ ("B" :> 66) @@ ("K" :> 75) @@ ("N" :> 78) @@ ("O" :> 79) @@ ("P" :> 80)
    @@ ("Q" :> 81) @@ ("R" :> 82) @@ ("Z" :> 90)
    @@ ("a" :> 97) @@ ("b" :> 98) @@ ("c" :> 99) @@ ("d" :> 100) @@ ("e" :> 101)
    @@ ("f" :> 102) @@ ("g" :> 103) @@ ("h" :> 104) @@ ("i" :> 105) @@ ("n" :> 110)
    @@ ("x" :> 120)

ord(c) == CodePoints[c]

\* str.isdigit() of a one-character string
isdigit(c) == ord(c) \in 48..57

\* int() of a one-character string: a ValueError unless it is a digit
int_raises(c) == ~isdigit(c)

int(c) == ord(c) - 48

\* c.lower() == c
lower_is_same(c) == ~(ord(c) \in 65..90)

\* Category(c): a ValueError unless c is the value of a member
Category_raises(c) == c \notin Category

\* expr[k], k >= 0
At(expr, k) == expr[k + 1]

\* expr[-k], k >= 1
FromEnd(expr, k) == expr[Len(expr) - k + 1]

\* "c in expr"
Contains(expr, c) == \E k \in 1..Len(expr) : expr[k] = c

\* expr == text
Spells(expr, text) ==
    /\ Len(expr) = Len(text)
    /\ \A k \in 1..Len(expr) : expr[k] = text[k]

Parsed(mv) == [outcome |-> "returns", move |-> mv]

ParseRaises(error) == [outcome |-> error, move |-> Movement(KING, MOVE, None, None, None, None)]

Parser_letter_to_num(letter) == ord(letter) - ord("a")

Parser_parse_row_unflipped(original_row) == int(original_row) - 1

Parser_parse_row(original_row) == 8 - int(original_row)

\* The destination every _parse_* method reads: the file at expr[c], then
\* the rank at expr[r].  "none" when both are read without an exception.
Parser_destination_raises(expr, c, r) ==
    IF Len(expr) <= c THEN "IndexError"
    ELSE IF Len(expr) <= r THEN "IndexError"
    ELSE IF int_raises(At(expr, r)) THEN "ValueError"
    ELSE "none"

Parser_destination(expr, c, r) ==
    <<Parser_parse_row(At(expr, r)), Parser_letter_to_num(At(expr, c))>>

Parser_parse_capture(expr) ==
    IF Parser_destination_raises(expr, 2, 3) # "none"
    THEN ParseRaises(Parser_destination_raises(expr, 2, 3))
    ELSE IF lower_is_same(At(expr, 0))
    THEN Parsed(Movement(PAWN, CAPTURE, Parser_destination(expr, 2, 3), None, None, None))
    ELSE IF Category_raises(At(expr, 0)) THEN ParseRaises("ValueError")
    ELSE Parsed(Movement(At(expr, 0), CAPTURE, Parser_destination(expr, 2, 3), None, None, None))

Parser_parse_castling_king(expr) ==
    Parsed(Movement(KING, CASTLING_KING, None, None, None, None))

Parser_parse_castling_queen(expr) ==
    Parsed(Movement(KING, CASTLING_QUEEN, None, None, None, None))

\* _parse_check and _parse_checkmate: the same method but for the action
Parser_parse_suffixed(expr, action) ==
    IF Len(expr) = 3
    THEN IF Parser_destination_raises(expr, 0, 1) # "none"
         THEN ParseRaises(Parser_destination_raises(expr, 0, 1))
         ELSE Parsed(Movement(PAWN, action, Parser_destination(expr, 0, 1), None, None, None))
    ELSE IF Category_raises(At(expr, 0)) THEN ParseRaises("ValueError")
    ELSE IF Parser_destination_raises(expr, 1, 2) # "none"
    THEN ParseRaises(Parser_destination_raises(expr, 1, 2))
    ELSE Parsed(Movement(At(expr, 0), action, Parser_destination(expr, 1, 2), None, None, None))

Parser_parse_check(expr) == Parser_parse_suffixed(expr, CHECK)

Parser_parse_checkmate(expr) == Parser_parse_suffixed(expr, CHECKMATE)

Parser_parse_promote(expr) ==
    IF Parser_destination_raises(expr, 0, 1) # "none"
    THEN ParseRaises(Parser_destination_raises(expr, 0, 1))
    ELSE IF Category_raises(FromEnd(expr, 1)) THEN ParseRaises("ValueError")
    ELSE Parsed(Movement(PAWN, PROMOTE, Parser_destination(expr, 0, 1), None, None,
                         <<FromEnd(expr, 1)>>))

\* The hint of a four-character move: a digit is the row, anything else is
\* taken for the file
Parser_current_row(expr) ==
    IF isdigit(At(expr, 1)) THEN <<Parser_parse_row(At(expr, 1))>> ELSE None

Parser_current_col(expr) ==
    IF isdigit(At(expr, 1)) THEN None ELSE <<Parser_letter_to_num(At(expr, 1))>>

Parser_parse_move(expr) ==
    IF Len(expr) = 2
    THEN IF Parser_destination_raises(expr, 0, 1) # "none"
         THEN ParseRaises(Parser_destination_raises(expr, 0, 1))
         ELSE Parsed(Movement(PAWN, MOVE, Parser_destination(expr, 0, 1), None, None, None))
    ELSE IF Len(expr) = 4
    THEN IF Category_raises(At(expr, 0)) THEN ParseRaises("ValueError")
         ELSE IF Parser_destination_raises(expr, 2, 3) # "none"
         THEN ParseRaises(Parser_destination_raises(expr, 2, 3))
         ELSE Parsed(Movement(At(expr, 0), MOVE, Parser_destination(expr, 2, 3),
                              Parser_current_row(expr), Parser_current_col(expr), None))
    ELSE IF Category_raises(At(expr, 0)) THEN ParseRaises("ValueError")
    ELSE IF Parser_destination_raises(expr, 1, 2) # "none"
    THEN ParseRaises(Parser_destination_raises(expr, 1, 2))
    ELSE Parsed(Movement(At(expr, 0), MOVE, Parser_destination(expr, 1, 2), None, None, None))

\* parse(expr): the Movement it returns, or the exception it raises.  The
\* tests of expr[1], expr[-1] and expr[-2] raise IndexError on an
\* expression too short for them.
Parser_parse(expr) ==
    IF Len(expr) < 2 THEN ParseRaises("IndexError")
    ELSE IF At(expr, 1) = CAPTURE THEN Parser_parse_capture(expr)
    ELSE IF Spells(expr, <<"O", "-", "O">>) THEN Parser_parse_castling_king(expr)
    ELSE IF Spells(expr, <<"O", "-", "O", "-", "O">>) THEN Parser_parse_castling_queen(expr)
    ELSE IF Contains(expr, CHECK) THEN Parser_parse_check(expr)
    ELSE IF FromEnd(expr, 1) = CHECKMATE THEN Parser_parse_checkmate(expr)
    ELSE IF FromEnd(expr, 2) = PROMOTE THEN Parser_parse_promote(expr)
    ELSE Parser_parse_move(expr)

----------------------------------------------------------------------------
(* The state machines. *)

Squares == (0..7) \X (0..7)

Pc(category, color, x, y) ==
    [position |-> <<x, y>>, color |-> color, category |-> category]

\* Board(pieces) takes any roster; these two stand in the corner (7, 0).
RosterKnights ==
    << Pc(PAWN, WHITE, 6, 0), Pc(KNIGHT, WHITE, 7, 1), Pc(KNIGHT, WHITE, 7, 3),
       Pc(ROOK, WHITE, 7, 0), Pc(BISHOP, BLACK, 4, 1) >>

RosterRooks ==
    << Pc(ROOK, WHITE, 7, 0), Pc(ROOK, WHITE, 7, 3), Pc(QUEEN, BLACK, 4, 6),
       Pc(PAWN, BLACK, 4, 0) >>

Rosters == {RosterKnights, RosterRooks}

\* The destinations of the requests made to the Board
BoardDestinations == ((7 - DestSpan)..(7 + OutMargin)) \X ((0 - OutMargin)..DestSpan)

\* The requests made to the Board: every kind with MOVE, CAPTURE, CHECK
\* and CHECKMATE without hints, MOVE with a current_row or a current_col
\* hint, the two castling requests the parser builds, and a pawn's PROMOTE
\* to a Queen or to a Pawn.
BoardRequests ==
    {Movement(c, a, d, None, None, None) :
        c \in Category, a \in {MOVE, CAPTURE, CHECK, CHECKMATE}, d \in BoardDestinations}
    \cup {Movement(c, MOVE, d, <<7>>, None, None) : c \in Category, d \in BoardDestinations}
    \cup {Movement(c, MOVE, d, None, <<1>>, None) : c \in Category, d \in BoardDestinations}
    \cup {Movement(KING, a, None, None, None, None) : a \in {CASTLING_KING, CASTLING_QUEEN}}
    \cup {Movement(PAWN, PROMOTE, d, None, None, <<c>>) : c \in {QUEEN, PAWN}, d \in BoardDestinations}

NoMovement == Movement(KING, MOVE, None, None, None, None)

NoBoardCall ==
    [called |-> FALSE, move |-> NoMovement, color |-> WHITE, before |-> <<>>,
     moved |-> {}, outcome |-> "none"]

NoPiece == Pc(KING, WHITE, 0, 0)

NoPieceCall == [called |-> FALSE, move |-> NoMovement, before |-> NoPiece, raises |-> FALSE]

NoPathCall == [called |-> FALSE, move |-> NoMovement, status |-> "none", path |-> <<>>]

NoMovesCall == [called |-> FALSE, moves |-> {}]

NoParse == [called |-> FALSE, expr |-> <<>>, outcome |-> "none", move |-> NoMovement]

NoPlay ==
    [count |-> 0, running |-> TRUE, input |-> <<>>, turn |-> WHITE, before |-> <<>>,
     outcome |-> "none", applied |-> <<>>]

Init ==
    /\ pieces \in Rosters
    /\ last = NoBoardCall
    /\ ncalls = 0
    /\ piece = NoPiece
    /\ plast = NoPieceCall
    /\ movers = {}
    /\ glast = NoPathCall
    /\ parsed = NoParse
    /\ current_turn = WHITE
    /\ played = NoPlay
    /\ mlast = NoMovesCall

\* board.perform_movement(mv, color)
PerformMovement(mv, color) ==
    /\ LET r == Board_perform_movement(pieces, mv, color)
       IN  /\ pieces' = r.pieces
           /\ last' = [called |-> TRUE, move |-> mv, color |-> color, before |-> pieces,
                       moved |-> movers, outcome |-> r.outcome]
           /\ movers' = movers \cup {i \in 1..Len(pieces) : r.pieces[i].position # pieces[i].position}
    /\ ncalls' = ncalls + 1
    /\ UNCHANGED <<piece, plast, glast, parsed, current_turn, played, mlast>>

\* A behaviour is a run of calls that return, ended by the bound or by the
\* first call that does not return: that call's board is the state it ends in.
MayCall == ncalls < MaxCalls /\ last.outcome \in {"none", "returns"}

Next == MayCall /\ \E mv \in BoardRequests, color \in Color : PerformMovement(mv, color)

Spec == Init /\ [][Next]_vars

\* Two more rosters.  The first has WHITE's King and Rooks on their
\* castling squares and a BLACK pawn one step from promotion, which also
\* attacks the Rook on (7, 0).  In the second a BLACK Rook can reach the
\* back rank, where WHITE's King is shut in by its own pawns.
RosterCastling ==
    << Pc(KING, WHITE, 7, 4), Pc(ROOK, WHITE, 7, 0), Pc(ROOK, WHITE, 7, 7),
       Pc(PAWN, BLACK, 6, 1) >>

RosterBackRank ==
    << Pc(KING, WHITE, 7, 0), Pc(PAWN, WHITE, 6, 0), Pc(PAWN, WHITE, 6, 1),
       Pc(ROOK, BLACK, 0, 3) >>

SceneRosters == {RosterCastling, RosterBackRank}

InitScene ==
    /\ pieces \in SceneRosters
    /\ last = NoBoardCall
    /\ ncalls = 0
    /\ piece = NoPiece
    /\ plast = NoPieceCall
    /\ movers = {}
    /\ glast = NoPathCall
    /\ parsed = NoParse
    /\ current_turn = WHITE
    /\ played = NoPlay
    /\ mlast = NoMovesCall

SpecScene == InitScene /\ [][Next]_vars

\* The destinations of the requests made to a single piece
PieceDestinations == ((0 - OutMargin)..(7 + OutMargin)) \X ((0 - OutMargin)..(7 + OutMargin))

PieceRequests(category) ==
    {Movement(category, a, d, None, None, None) : a \in Action, d \in PieceDestinations}

InitPiece ==
    /\ pieces = <<>>
    /\ last = NoBoardCall
    /\ ncalls = 0
    /\ piece \in [position : Squares, color : Color, category : Category]
    /\ plast = NoPieceCall
    /\ movers = {}
    /\ glast = NoPathCall
    /\ parsed = NoParse
    /\ current_turn = WHITE
    /\ played = NoPlay
    /\ mlast = NoMovesCall

\* piece.move(mv)
PieceMove(mv) ==
    /\ LET r == Piece_move(piece, mv)
       IN  /\ piece' = [piece EXCEPT !.position = r.position]
           /\ plast' = [called |-> TRUE, move |-> mv, before |-> piece, raises |-> r.raises]
    /\ UNCHANGED <<pieces, last, ncalls, movers, glast, parsed, current_turn, played, mlast>>

\* The get_path requests made to a single piece: get_path reads nothing of
\* the request but its destination.
PathRequests(category) ==
    {Movement(category, MOVE, d, None, None, None) : d \in PieceDestinations}

\* piece.get_path(mv)
PieceGetPath(mv) ==
    /\ LET r == Piece_get_path(piece, mv)
       IN  glast' = [called |-> TRUE, move |-> mv, status |-> r.status, path |-> r.path]
    /\ UNCHANGED <<pieces, last, ncalls, piece, plast, movers, parsed, current_turn, played, mlast>>

\* piece.get_possible_moves()
PieceGetPossibleMoves ==
    /\ mlast' = [called |-> TRUE, moves |-> Piece_get_possible_moves(piece)]
    /\ UNCHANGED <<pieces, last, ncalls, piece, plast, movers, glast, parsed, current_turn,
                   played>>

\* One call on a freshly constructed piece
NextPiece ==
    /\ ~plast.called /\ ~glast.called /\ ~mlast.called
    /\ \/ \E mv \in PieceRequests(piece.category) : PieceMove(mv)
       \/ \E mv \in PathRequests(piece.category) : PieceGetPath(mv)
       \/ PieceGetPossibleMoves

SpecPiece == InitPiece /\ [][NextPiece]_vars

\* The characters of the expressions given to parse: files, rank digits,
\* a piece letter, its lowercase, a capital that names no piece, and the
\* characters of the actions
ExprChars == {"a", "b", "d", "n", "2", "5", "8", "N", "Z", "x", "+", "#", "=", "O", "-"}

\* Every string of at most MaxExprLen characters, and queenside castling
Exprs ==
    UNION {[1..n -> ExprChars] : n \in 0..MaxExprLen} \cup {<<"O", "-", "O", "-", "O">>}

InitParser ==
    /\ pieces = <<>>
    /\ last = NoBoardCall
    /\ ncalls = 0
    /\ piece = NoPiece
    /\ plast = NoPieceCall
    /\ movers = {}
    /\ glast = NoPathCall
    /\ parsed \in {[NoParse EXCEPT !.expr = e] : e \in Exprs}
    /\ current_turn = WHITE
    /\ played = NoPlay
    /\ mlast = NoMovesCall

\* parser.parse(parsed.expr)
Parse ==
    /\ ~parsed.called
    /\ LET r == Parser_parse(parsed.expr)
       IN  parsed' = [called |-> TRUE, expr |-> parsed.expr, outcome |-> r.outcome,
                      move |-> r.move]
    /\ UNCHANGED <<pieces, last, ncalls, piece, plast, movers, glast, current_turn, played, mlast>>

NextParser == Parse

SpecParser == InitParser /\ [][NextParser]_vars

\* get_initial_board(): the pieces in the order the list is built in
\* Mutant: WHITE's Queen is built as a King.
get_initial_board_queen_as_king ==
    [i \in 1..8 |-> Pc(PAWN, WHITE, 6, i - 1)]
    \o << Pc(KNIGHT, WHITE, 7, 1), Pc(KNIGHT, WHITE, 7, 6),
          Pc(BISHOP, WHITE, 7, 2), Pc(BISHOP, WHITE, 7, 5),
          Pc(ROOK, WHITE, 7, 0), Pc(ROOK, WHITE, 7, 7),
          Pc(KING, WHITE, 7, 3), Pc(KING, WHITE, 7, 4) >>
    \o [i \in 1..8 |-> Pc(PAWN, BLACK, 1, i - 1)]
    \o << Pc(KNIGHT, BLACK, 0, 1), Pc(KNIGHT, BLACK, 0, 6),
          Pc(BISHOP, BLACK, 0, 2), Pc(BISHOP, BLACK, 0, 5),
          Pc(ROOK, BLACK, 0, 0), Pc(ROOK, BLACK, 0, 7),
          Pc(QUEEN, BLACK, 0, 3), Pc(KING, BLACK, 0, 4) >>

get_initial_board ==
    [i \in 1..8 |-> Pc(PAWN, WHITE, 6, i - 1)]
    \o << Pc(KNIGHT, WHITE, 7, 1), Pc(KNIGHT, WHITE, 7, 6),
          Pc(BISHOP, WHITE, 7, 2), Pc(BISHOP, WHITE, 7, 5),
          Pc(ROOK, WHITE, 7, 0), Pc(ROOK, WHITE, 7, 7),
          Pc(QUEEN, WHITE, 7, 3), Pc(KING, WHITE, 7, 4) >>
    \o [i \in 1..8 |-> Pc(PAWN, BLACK, 1, i - 1)]
    \o << Pc(KNIGHT, BLACK, 0, 1), Pc(KNIGHT, BLACK, 0, 6),
          Pc(BISHOP, BLACK, 0, 2), Pc(BISHOP, BLACK, 0, 5),
          Pc(ROOK, BLACK, 0, 0), Pc(ROOK, BLACK, 0, 7),
          Pc(QUEEN, BLACK, 0, 3), Pc(KING, BLACK, 0, 4) >>

\* Game._next_turn
Game_next_turn_to_black(turn) == IF turn = WHITE THEN BLACK ELSE BLACK

Game_next_turn(turn) == IF turn = WHITE THEN BLACK ELSE WHITE

\* What the players type: pawn and knight moves of either side that the
\* initial position allows ("a3", "a4", "Nc3", "a6", "Nc6"), a capture and
\* a castling, a disambiguated move to an empty square ("Nba3"), an unknown
\* piece letter ("bd5") and an expression of one character ("e")
GameInputs ==
    { <<"a", "3">>, <<"a", "4">>, <<"N", "c", "3">>, <<"a", "6">>, <<"N", "c", "6">>,
      <<"e", "x", "d", "5">>, <<"O", "-", "O">>, <<"N", "b", "a", "3">>,
      <<"b", "d", "5">>, <<"e">> }

\* Game(get_initial_board(), AlgebraicExpressionParser())
InitGame ==
    /\ pieces = get_initial_board
    /\ last = NoBoardCall
    /\ ncalls = 0
    /\ piece = NoPiece
    /\ plast = NoPieceCall
    /\ movers = {}
    /\ glast = NoPathCall
    /\ parsed = NoParse
    /\ current_turn = WHITE
    /\ played = NoPlay
    /\ mlast = NoMovesCall

\* One iteration of the loop of Game.play, on the line the player typed.
\* Only InvalidMovement is caught: an exception of parse, or another one of
\* perform_movement, leaves play and ends the loop.
Play(input) ==
    /\ played.running
    /\ played.count < MaxInputs
    /\ LET player_movement == Parser_parse(input)
           r == Board_perform_movement(pieces, player_movement.move, current_turn)
           outcome == IF player_movement.outcome # "returns"
                      THEN player_movement.outcome ELSE r.outcome
       IN  /\ pieces' = IF player_movement.outcome = "returns" THEN r.pieces ELSE pieces
           /\ current_turn' = IF outcome = "returns"
                              THEN Game_next_turn(current_turn) ELSE current_turn
           /\ played' = [count |-> played.count + 1,
                         running |-> outcome \in {"returns", "InvalidMovement"},
                         input |-> input, turn |-> current_turn, before |-> pieces,
                         outcome |-> outcome,
                         applied |-> IF outcome = "returns"
                                     THEN Append(played.applied, current_turn)
                                     ELSE played.applied]
    /\ UNCHANGED <<last, ncalls, piece, plast, movers, glast, parsed, mlast>>

NextGame == \E input \in GameInputs : Play(input)

SpecGame == InitGame /\ [][NextGame]_vars

\* Board(get_initial_board()): perform_movement called on the initial
\* position.  The requests go to the squares of the Queens' and the Kings'
\* files, where after a pawn's move the King, the Queen, a Bishop or a
\* Knight of either side can follow, and include the two castlings.
OpeningDestinations == (0..7) \X {3, 4}

OpeningRequests ==
    {Movement(c, a, d, None, None, None) :
        c \in Category, a \in {MOVE, CAPTURE}, d \in OpeningDestinations}
    \cup {Movement(KING, a, None, None, None, None) : a \in {CASTLING_KING, CASTLING_QUEEN}}

NextOpening == MayCall /\ \E mv \in OpeningRequests, color \in Color : PerformMovement(mv, color)

SpecOpening == InitGame /\ [][NextOpening]_vars

----------------------------------------------------------------------------
(* Board.perform_movement: properties of the most recent call. *)

Sgn(n) == IF n > 0 THEN 1 ELSE IF n < 0 THEN -1 ELSE 0

Max(a, b) == IF a > b THEN a ELSE b

InBounds(d) == d[1] \in 0..7 /\ d[2] \in 0..7

\* The squares a piece sweeps on a straight or diagonal line from o to d:
\* those after o, up to and including d.
SquaresOnTheWay(o, d) ==
    {<<o[1] + k * Sgn(d[1] - o[1]), o[2] + k * Sgn(d[2] - o[2])>> :
        k \in 1..Max(Abs(d[1] - o[1]), Abs(d[2] - o[2]))}

\* The square of piece i is not the one it had before the call
Changed(i) == pieces[i].position # last.before[i].position

Occupied(ps, d) == \E k \in 1..Len(ps) : ps[k].position = d

NoHint(mv) == mv.current_row = None /\ mv.current_col = None

MatchesHint(p, mv) ==
    /\ mv.current_row # None => p.position[1] = mv.current_row[1]
    /\ mv.current_col # None => p.position[2] = mv.current_col[1]

\* Piece i of the board ps has the kind and color asked for, and the
\* destination is in bounds, obeys the kind's geometry from where i stands
\* and, for a kind other than Knight, no other piece stands on the way.
CouldReach(ps, i, mv, color) ==
    /\ ps[i].category = mv.category
    /\ ps[i].color = color
    /\ InBounds(mv.next_position)
    /\ mv.category = PAWN => ps[i].position[2] = mv.next_position[2]
    /\ Chess_is_valid_move(ps[i], mv)
    /\ mv.category # KNIGHT =>
           \A j \in 1..Len(ps) :
               j # i => ps[j].position \notin SquaresOnTheWay(ps[i].position, mv.next_position)

LastMoveReturned ==
    last.called /\ last.move.action = MOVE /\ last.outcome = "returns"

\* C1: a MOVE call that returns changed the square of exactly one piece,
\* the first piece in list order that could reach the destination, which
\* now stands on the destination; every other piece kept its square.
C1_ExactlyOnePieceMoves ==
    LastMoveReturned =>
        \E i \in 1..Len(pieces) :
            /\ Changed(i)
            /\ pieces[i].position = last.move.next_position
            /\ CouldReach(last.before, i, last.move, last.color)
            /\ \A j \in 1..Len(pieces) :
                   j < i => ~CouldReach(last.before, j, last.move, last.color)
            /\ \A j \in 1..Len(pieces) : j # i => ~Changed(j)

\* C2: no two pieces of the board stand on the same square.
C2_NoTwoPiecesShareASquare ==
    \A i, j \in 1..Len(pieces) : i # j => pieces[i].position # pieces[j].position

\* C3: a MOVE call whose destination is occupied, by a piece of either
\* color, raises InvalidMovement and moves no piece.
C3_OccupiedDestinationFails ==
    (last.called /\ last.move.action = MOVE /\ Occupied(last.before, last.move.next_position))
        => (last.outcome = "InvalidMovement" /\ pieces = last.before)

\* C3 happens: a MOVE onto a square an enemy piece holds, asked of a kind
\* with a piece that obeys its geometry, was refused.
C3_Witness ==
    /\ last.called /\ last.move.action = MOVE
    /\ last.outcome = "InvalidMovement"
    /\ \E k \in 1..Len(last.before) :
           /\ last.before[k].position = last.move.next_position
           /\ last.before[k].color # last.color
    /\ \E i \in 1..Len(last.before) :
           /\ last.before[i].category = last.move.category
           /\ last.before[i].color = last.color
           /\ last.move.category = PAWN => last.before[i].position[2] = last.move.next_position[2]
           /\ Chess_is_valid_move(last.before[i], last.move)

\* C4: in a MOVE call, a piece of a kind other than Knight whose square
\* changed had no other piece on the squares of its way (after its origin,
\* up to and including the destination); and every Knight of the asked
\* color, asked without hints for an empty in-bounds square a knight's jump
\* away, stands on that square afterwards, whatever stands around it.
C4_ObstructionBlocksAllButKnights ==
    (last.called /\ last.move.action = MOVE) =>
        /\ \A i \in 1..Len(pieces) :
               (Changed(i) /\ pieces[i].category # KNIGHT) =>
                   \A j \in 1..Len(pieces) :
                       j # i => last.before[j].position \notin
                                    SquaresOnTheWay(last.before[i].position,
                                                    last.move.next_position)
        /\ \A i \in 1..Len(pieces) :
               ( /\ last.move.category = KNIGHT
                 /\ NoHint(last.move)
                 /\ last.before[i].category = KNIGHT
                 /\ last.before[i].color = last.color
                 /\ InBounds(last.move.next_position)
                 /\ ~Occupied(last.before, last.move.next_position)
                 /\ {Abs(last.before[i].position[1] - last.move.next_position[1]),
                     Abs(last.before[i].position[2] - last.move.next_position[2])} = {1, 2} )
               => pieces[i].position = last.move.next_position

\* C4 happens: a piece other than a Knight, asked to MOVE to an empty square
\* its geometry allows, stayed because another piece stood on its way.
C4_Witness ==
    /\ last.called /\ last.move.action = MOVE /\ NoHint(last.move)
    /\ last.move.category # KNIGHT
    /\ InBounds(last.move.next_position)
    /\ ~Occupied(last.before, last.move.next_position)
    /\ \E i \in 1..Len(pieces) :
           /\ last.before[i].category = last.move.category
           /\ last.before[i].color = last.color
           /\ Chess_is_valid_move(last.before[i], last.move)
           /\ \E j \in 1..Len(pieces) :
                  j # i /\ last.before[j].position \in
                               SquaresOnTheWay(last.before[i].position, last.move.next_position)
           /\ ~Changed(i)

\* C5: a MOVE call with a current_row or current_col hint, when two pieces
\* of the asked kind and color could both reach the destination and one of
\* them stands where the hint says, returns with that piece on the
\* destination and the other one where it was.
C5_HintSelectsThePiece ==
    (last.called /\ last.move.action = MOVE /\ ~NoHint(last.move)) =>
        \A i, j \in 1..Len(pieces) :
            ( /\ i # j
              /\ ~Occupied(last.before, last.move.next_position)
              /\ CouldReach(last.before, i, last.move, last.color)
              /\ CouldReach(last.before, j, last.move, last.color)
              /\ MatchesHint(last.before[i], last.move)
              /\ ~MatchesHint(last.before[j], last.move) )
            => /\ last.outcome = "returns"
               /\ pieces[i].position = last.move.next_position
               /\ ~Changed(j)

\* C6: a call that raises leaves the piece list as it was before the call:
\* same pieces, same squares, kinds and colors.
C6_FailedCallChangesNothing ==
    (last.called /\ last.outcome \in {"InvalidMovement", "TypeError"})
        => pieces = last.before

\* C6 happens: a MOVE to an empty square ran the candidate loop over at
\* least one piece of the asked kind and color and raised InvalidMovement.
C6_Witness ==
    /\ last.called /\ last.move.action = MOVE /\ NoHint(last.move)
    /\ last.outcome = "InvalidMovement"
    /\ ~Occupied(last.before, last.move.next_position)
    /\ \E i \in 1..Len(last.before) :
           /\ last.before[i].category = last.move.category
           /\ last.before[i].color = last.color
           /\ last.move.category = PAWN => last.before[i].position[2] = last.move.next_position[2]

----------------------------------------------------------------------------
(* models.py move(): properties of the most recent call. *)

PieceDest == plast.move.next_position

PieceOrigin == plast.before.position

\* move() returned normally and the piece stands on the destination
Accepted == ~plast.raises /\ piece.position = PieceDest

\* move() raised InvalidMovement and the piece stands where it stood
Refused == plast.raises /\ piece.position = PieceOrigin

\* the direction a pawn of this color advances in: WHITE toward rank 0
Forward(color) == IF color = WHITE THEN -1 ELSE 1

StartRank(color) == IF color = WHITE THEN 6 ELSE 1

\* C7: for every kind of piece and every square it stands on, move() to a
\* destination with a rank or file outside 0..7 raises InvalidMovement and
\* leaves the position as it was.
C7_OutsideBoardRefused ==
    (plast.called /\ ~InBounds(PieceDest)) => Refused

\* C7 happens: a Knight was asked for a square a knight's jump away that
\* lies off the board, and refused.
C7_Witness ==
    /\ plast.called /\ plast.before.category = KNIGHT
    /\ ~InBounds(PieceDest)
    /\ {Abs(PieceOrigin[1] - PieceDest[1]), Abs(PieceOrigin[2] - PieceDest[2])} = {1, 2}
    /\ Refused

\* C8: Pawn.move with MOVE accepts an in-bounds destination exactly when it
\* is on the pawn's file and one rank forward, or two ranks forward from the
\* pawn's starting rank; every other destination raises InvalidMovement.
C8_PawnMoveRule ==
    (plast.called /\ plast.before.category = PAWN /\ plast.move.action = MOVE
        /\ InBounds(PieceDest)) =>
        LET ahead == (PieceDest[1] - PieceOrigin[1]) * Forward(plast.before.color)
            legal == /\ PieceDest[2] = PieceOrigin[2]
                     /\ \/ ahead = 1
                        \/ ahead = 2 /\ PieceOrigin[1] = StartRank(plast.before.color)
        IN  IF legal THEN Accepted ELSE Refused

\* C9: Pawn.move with CAPTURE accepts an in-bounds destination exactly when
\* it is one rank forward and one file to the left or right; every other
\* destination raises InvalidMovement and leaves the pawn where it is.
C9_PawnCaptureRule ==
    (plast.called /\ plast.before.category = PAWN /\ plast.move.action = CAPTURE
        /\ InBounds(PieceDest)) =>
        LET legal == /\ PieceDest[1] - PieceOrigin[1] = Forward(plast.before.color)
                     /\ Abs(PieceDest[2] - PieceOrigin[2]) = 1
        IN  IF legal THEN Accepted ELSE Refused

\* C9 happens: a BLACK pawn captured one rank down (forward for BLACK), and
\* so moved against the direction a WHITE pawn captures in.
C9_Witness ==
    /\ plast.called /\ plast.before.category = PAWN /\ plast.move.action = CAPTURE
    /\ plast.before.color = BLACK
    /\ PieceDest[1] = PieceOrigin[1] + 1
    /\ Accepted

\* The geometric rule of Rook, Knight, Bishop and Queen from o to d
GeometricRule(category, o, d) ==
    LET dr == Abs(d[1] - o[1])
        df == Abs(d[2] - o[2])
        rook == (dr = 0 \/ df = 0) /\ o # d
        bishop == dr = df
    IN  CASE category = ROOK   -> rook
          [] category = BISHOP -> bishop
          [] category = QUEEN  -> rook \/ bishop
          [] category = KNIGHT -> (dr = 1 /\ df = 2) \/ (dr = 2 /\ df = 1)

\* C10: move() of Rook, Knight, Bishop and Queen accepts an in-bounds
\* destination exactly when it obeys the kind's geometric rule (Rook: same
\* rank or file and another square; Bishop: |drank| = |dfile|; Queen: either;
\* Knight: one of the eight jumps), at any distance; every other
\* destination raises InvalidMovement.
C10_SliderAndKnightRule ==
    (plast.called /\ plast.before.category \in {ROOK, KNIGHT, BISHOP, QUEEN}
        /\ InBounds(PieceDest)) =>
        IF GeometricRule(plast.before.category, PieceOrigin, PieceDest)
        THEN Accepted ELSE Refused

\* C10 happens: a Rook crossed the whole board along its rank.
C10_Witness ==
    /\ plast.called /\ plast.before.category = ROOK
    /\ PieceOrigin[1] = PieceDest[1]
    /\ Abs(PieceOrigin[2] - PieceDest[2]) = 7
    /\ Accepted

\* C11: King.move accepts an in-bounds destination exactly when the
\* displacement is horizontal, vertical or diagonal (|drank| = |dfile|) and
\* |drank| + |dfile| <= 2; every other destination raises InvalidMovement.
C11_KingRule ==
    (plast.called /\ plast.before.category = KING /\ InBounds(PieceDest)) =>
        LET dr == Abs(PieceDest[1] - PieceOrigin[1])
            df == Abs(PieceDest[2] - PieceOrigin[2])
            legal == (dr = 0 \/ df = 0 \/ dr = df) /\ dr + df <= 2
        IN  IF legal THEN Accepted ELSE Refused

\* C11 happens: a King stepped diagonally, the longest displacement the sum
\* allows off a rank or file.
C11_Witness ==
    /\ plast.called /\ plast.before.category = KING
    /\ Abs(PieceDest[1] - PieceOrigin[1]) = 1
    /\ Abs(PieceDest[2] - PieceOrigin[2]) = 1
    /\ Accepted

----------------------------------------------------------------------------
(* get_path of src/models.py: properties of the most recent call. *)

PathDest == glast.move.next_position

\* The King's rule from o to d
KingRule(o, d) ==
    LET dr == Abs(d[1] - o[1])
        df == Abs(d[2] - o[2])
    IN  (dr = 0 \/ df = 0 \/ dr = df) /\ dr + df <= 2

\* d is a legal destination on the board for a piece of this kind and
\* color standing on o
LegalDestination(category, color, o, d) ==
    /\ InBounds(d)
    /\ CASE category = PAWN ->
              LET ahead == (d[1] - o[1]) * Forward(color)
              IN  d[2] = o[2] /\ (ahead = 1 \/ (ahead = 2 /\ o[1] = StartRank(color)))
         [] category = KING -> KingRule(o, d)
         [] OTHER -> GeometricRule(category, o, d)

\* C12: for Rook, Bishop, Queen and King and every legal in-bounds
\* destination other than the origin, get_path returns a sequence without
\* the origin, ending on the destination, as long as the Chebyshev distance,
\* whose k-th element lies k squares from the origin along the line; for
\* Knight, get_path returns the empty sequence.
C12_PathSweepsTheLine ==
    glast.called =>
        LET o == piece.position
            d == PathDest
            n == Max(Abs(d[1] - o[1]), Abs(d[2] - o[2]))
        IN  /\ (piece.category \in {ROOK, BISHOP, QUEEN, KING}
                  /\ LegalDestination(piece.category, piece.color, o, d) /\ d # o) =>
                  /\ glast.status = "returns"
                  /\ Len(glast.path) = n
                  /\ \A k \in 1..Len(glast.path) :
                        /\ glast.path[k] = <<o[1] + k * Sgn(d[1] - o[1]),
                                             o[2] + k * Sgn(d[2] - o[2])>>
                        /\ glast.path[k] # o
                  /\ glast.path[n] = d
            /\ piece.category = KNIGHT =>
                  glast.status = "returns" /\ glast.path = <<>>

\* C12 happens: a Queen's path along a diagonal, three squares or longer.
C12_Witness ==
    /\ glast.called /\ piece.category = QUEEN
    /\ glast.status = "returns"
    /\ Len(glast.path) >= 3
    /\ Abs(PathDest[1] - piece.position[1]) = Abs(PathDest[2] - piece.position[2])

\* C13: for every kind of piece, get_path raises InvalidMovement whenever
\* the destination is out of bounds or is not a legal destination for the
\* piece from its square.
C13_PathRefusesIllegal ==
    (glast.called /\ ~LegalDestination(piece.category, piece.color, piece.position, PathDest)) =>
        glast.status = "raises"

----------------------------------------------------------------------------
(* move() of src/models.py, continued. *)

\* C14: for every kind of piece, move() given a MOVE to a destination that
\* is legal for the piece returns normally, and afterwards the piece's
\* position is the requested destination.
C14_LegalMoveArrives ==
    (plast.called /\ plast.move.action = MOVE
        /\ LegalDestination(plast.before.category, plast.before.color,
                            PieceOrigin, PieceDest)) =>
        (~plast.raises /\ piece.position = plast.move.next_position)

\* C14 happens: a Knight jumped with a MOVE and stands on another square.
C14_Witness ==
    /\ plast.called /\ plast.move.action = MOVE
    /\ plast.before.category = KNIGHT
    /\ LegalDestination(KNIGHT, plast.before.color, PieceOrigin, PieceDest)
    /\ piece.position = PieceDest /\ piece.position # PieceOrigin

----------------------------------------------------------------------------
(* Board.perform_movement: capturing, castling, promotion, check and      *)
(* checkmate.                                                              *)

BoardDest == last.move.next_position

Opposing(color) == IF color = WHITE THEN BLACK ELSE WHITE

RemoveAt(s, k) == SubSeq(s, 1, k - 1) \o SubSeq(s, k + 1, Len(s))

\* The geometry of a capture by piece p onto the square d
CaptureGeometry(p, d) ==
    /\ d # p.position
    /\ CASE p.category = PAWN ->
              /\ d[1] - p.position[1] = Forward(p.color)
              /\ Abs(d[2] - p.position[2]) = 1
         [] p.category = KING -> KingRule(p.position, d)
         [] OTHER -> GeometricRule(p.category, p.position, d)

\* Piece i of the board ps can capture onto d: the geometry allows it and,
\* for a kind other than Knight, no piece stands between i and d.
Attacks(ps, i, d) ==
    /\ CaptureGeometry(ps[i], d)
    /\ ps[i].category # KNIGHT =>
           \A j \in 1..Len(ps) :
               j # i => ps[j].position \notin (SquaresOnTheWay(ps[i].position, d) \ {d})

\* Some piece of this color on the board ps can capture onto d
Attackable(ps, d, color) ==
    \E i \in 1..Len(ps) : ps[i].color = color /\ Attacks(ps, i, d)

\* C15: a CAPTURE whose destination holds an enemy piece that a piece of
\* the mover's color and the requested kind can reach succeeds: the
\* capturing piece stands on the destination, the enemy piece is gone from
\* pieces and every other piece is as it was.
C15_CaptureTakesThePiece ==
    (/\ last.called /\ last.move.action = CAPTURE /\ InBounds(BoardDest)
     /\ \E v \in 1..Len(last.before) :
            last.before[v].position = BoardDest /\ last.before[v].color # last.color
     /\ \E i \in 1..Len(last.before) :
            /\ last.before[i].category = last.move.category
            /\ last.before[i].color = last.color
            /\ Attacks(last.before, i, BoardDest)) =>
        /\ last.outcome = "returns"
        /\ \E i, v \in 1..Len(last.before) :
               /\ last.before[i].category = last.move.category
               /\ last.before[i].color = last.color
               /\ last.before[v].position = BoardDest
               /\ pieces = RemoveAt([last.before EXCEPT ![i].position = BoardDest], v)

BackRank(color) == IF color = WHITE THEN 7 ELSE 0

\* The file of the Rook a castling request is about
RookFile(action) == IF action = CASTLING_KING THEN 7 ELSE 0

\* The squares between the King on file 4 and that Rook
SquaresBetween(action, color) ==
    {<<BackRank(color), f>> : f \in (IF action = CASTLING_KING THEN {5, 6} ELSE {1, 2, 3})}

\* The squares the King crosses and lands on
TransitSquares(action, color) ==
    {<<BackRank(color), f>> : f \in (IF action = CASTLING_KING THEN {5, 6} ELSE {3, 2})}

IsCastling(mv) == mv.action \in {CASTLING_KING, CASTLING_QUEEN}

\* Piece k of the board ps is the King of this color, piece r its Rook on
\* the corner the request is about
KingAndRook(ps, k, r, action, color) ==
    /\ ps[k].category = KING /\ ps[k].color = color
    /\ ps[r].category = ROOK /\ ps[r].color = color
    /\ ps[r].position = <<BackRank(color), RookFile(action)>>

\* C16: with the mover's King on file 4 and Rooks on files 0 and 7 of the
\* mover's back rank, the squares between them empty, neither piece moved
\* before, the King not attacked and no transit square attacked,
\* CASTLING_KING puts the King on file 6 and the Rook of file 7 on file 5,
\* and CASTLING_QUEEN puts the King on file 2 and the Rook of file 0 on
\* file 3, for WHITE on rank 7 and for BLACK on rank 0.
C16_CastlingRelocates ==
    (last.called /\ IsCastling(last.move)) =>
        \A k, r \in 1..Len(last.before) :
            (/\ KingAndRook(last.before, k, r, last.move.action, last.color)
             /\ last.before[k].position = <<BackRank(last.color), 4>>
             /\ \A f \in {0, 7} : \E q \in 1..Len(last.before) :
                    /\ last.before[q].category = ROOK /\ last.before[q].color = last.color
                    /\ last.before[q].position = <<BackRank(last.color), f>>
             /\ \A sq \in SquaresBetween(last.move.action, last.color) : ~Occupied(last.before, sq)
             /\ k \notin last.moved /\ r \notin last.moved
             /\ ~Attackable(last.before, last.before[k].position, Opposing(last.color))
             /\ \A sq \in TransitSquares(last.move.action, last.color) :
                    ~Attackable(last.before, sq, Opposing(last.color))) =>
                /\ last.outcome = "returns"
                /\ pieces[k].position =
                       <<BackRank(last.color), IF last.move.action = CASTLING_KING THEN 6 ELSE 2>>
                /\ pieces[r].position =
                       <<BackRank(last.color), IF last.move.action = CASTLING_KING THEN 5 ELSE 3>>

PromotionRank(color) == IF color = WHITE THEN 0 ELSE 7

\* C18: a PROMOTE request with target PAWN fails; with target QUEEN, an
\* empty destination on the back rank and a pawn of the mover that can step
\* onto it, the call succeeds, pieces holds a Queen of the mover's color on
\* the destination and the pawn is no longer in pieces.
C18_Promotion ==
    (last.called /\ last.move.action = PROMOTE /\ last.move.category = PAWN) =>
        /\ last.move.next_category = <<PAWN>> => last.outcome = "InvalidMovement"
        /\ \A i \in 1..Len(last.before) :
               (/\ last.move.next_category = <<QUEEN>>
                /\ BoardDest[1] = PromotionRank(last.color)
                /\ ~Occupied(last.before, BoardDest)
                /\ last.before[i].category = PAWN /\ last.before[i].color = last.color
                /\ LegalDestination(PAWN, last.color, last.before[i].position, BoardDest)) =>
                   /\ last.outcome = "returns"
                   /\ \E q \in 1..Len(pieces) : pieces[q] = Pc(QUEEN, last.color, BoardDest[1], BoardDest[2])
                   /\ ~\E j \in 1..Len(pieces) :
                          /\ pieces[j].category = PAWN /\ pieces[j].color = last.color
                          /\ pieces[j].position \in {last.before[i].position, BoardDest}

\* The King of this color is flagged in check: the move recorded last is a
\* CHECK of the other color.
KingFlaggedInCheck(color) ==
    /\ Len(Board_history_movements) > 0
    /\ LET h == Board_history_movements[Len(Board_history_movements)]
       IN  h.action = CHECK /\ h.color = Opposing(color)

\* C19: after a MOVE or CHECK call that returns, when the piece it moved
\* can capture onto the square of the opposing King, the move recorded last
\* is a CHECK and the opposing King is flagged in check.
C19_CheckIsRecorded ==
    (/\ last.called /\ last.move.action \in {MOVE, CHECK} /\ last.outcome = "returns"
     /\ \E i, k \in 1..Len(pieces) :
            /\ Changed(i)
            /\ pieces[k].category = KING /\ pieces[k].color = Opposing(last.color)
            /\ Attacks(pieces, i, pieces[k].position)) =>
        /\ Len(Board_history_movements) > 0
        /\ Board_history_movements[Len(Board_history_movements)].action = CHECK
        /\ KingFlaggedInCheck(Opposing(last.color))

\* Piece j of the board ps may go to d: by a capture when an enemy piece
\* stands on d, by a move of its kind over empty squares when d is empty.
CanGo(ps, j, d) ==
    /\ InBounds(d)
    /\ IF Occupied(ps, d)
       THEN /\ \E v \in 1..Len(ps) : ps[v].position = d /\ ps[v].color # ps[j].color
            /\ Attacks(ps, j, d)
       ELSE /\ LegalDestination(ps[j].category, ps[j].color, ps[j].position, d)
            /\ d # ps[j].position
            /\ ps[j].category # KNIGHT =>
                   \A q \in 1..Len(ps) :
                       q # j => ps[q].position \notin SquaresOnTheWay(ps[j].position, d)

\* The board after piece j of ps has gone to d and taken what stood there
AfterMove(ps, j, d) ==
    LET there == [ps EXCEPT ![j].position = d]
        taken == {v \in 1..Len(ps) : v # j /\ ps[v].position = d}
    IN  IF taken = {} THEN there ELSE RemoveAt(there, CHOOSE v \in taken : TRUE)

\* On the board ps no piece of the other color attacks a King of this color
KingSafe(ps, color) ==
    \A k \in 1..Len(ps) :
        (ps[k].category = KING /\ ps[k].color = color) =>
            ~Attackable(ps, ps[k].position, Opposing(color))

\* This color has a move or capture after which its King is not attacked
HasResponse(ps, color) ==
    \E j \in 1..Len(ps) :
        /\ ps[j].color = color
        /\ \E d \in Squares : CanGo(ps, j, d) /\ KingSafe(AfterMove(ps, j, d), color)

\* C20: a CHECKMATE request whose underlying move, made by the first piece
\* of the asked kind and color that can go to the destination, attacks the
\* opposing King raises Checkmate when the opposing side has no move that
\* leaves its King unattacked, and InvalidMovement when it has one.
C20_CheckmateSignalled ==
    (last.called /\ last.move.action = CHECKMATE) =>
        \A i \in 1..Len(last.before) :
            LET mine(j) == /\ last.before[j].category = last.move.category
                           /\ last.before[j].color = last.color
                           /\ CanGo(last.before, j, BoardDest)
                after == AfterMove(last.before, i, BoardDest)
                arrived == [last.before[i] EXCEPT !.position = BoardDest]
                attacks == \E m, k \in 1..Len(after) :
                               /\ after[m] = arrived
                               /\ after[k].category = KING
                               /\ after[k].color = Opposing(last.color)
                               /\ Attacks(after, m, after[k].position)
            IN  (mine(i) /\ (\A j \in 1..(i - 1) : ~mine(j)) /\ attacks) =>
                    IF HasResponse(after, Opposing(last.color))
                    THEN last.outcome = "InvalidMovement"
                    ELSE last.outcome = "Checkmate"

----------------------------------------------------------------------------
(* AlgebraicExpressionParser.parse: properties of the call made. *)

FileLetters == <<"a", "b", "c", "d", "e", "f", "g", "h">>

RankDigits == <<"1", "2", "3", "4", "5", "6", "7", "8">>

IndexIn(seq, c) == CHOOSE k \in 1..Len(seq) : seq[k] = c

IsFile(c) == \E k \in 1..Len(FileLetters) : FileLetters[k] = c

IsRank(c) == \E k \in 1..Len(RankDigits) : RankDigits[k] = c

\* The column a file letter names: a is 0, h is 7
FileOf(c) == IndexIn(FileLetters, c) - 1

\* The row a rank digit names: rank 8 is row 0, rank 1 is row 7
RowOf(c) == 8 - IndexIn(RankDigits, c)

\* The square written as a file letter and a rank digit
SquareOf(f, r) == <<RowOf(r), FileOf(f)>>

PieceLetters == {"P", "R", "N", "B", "Q", "K"}

\* The three shapes of a plain move: a pawn's "e4", a piece's "Nf3", and
\* the disambiguated "Nbd2" or "R8c2"
IsPawnMove(e) == Len(e) = 2 /\ IsFile(e[1]) /\ IsRank(e[2])

IsPieceMove(e) == Len(e) = 3 /\ e[1] \in PieceLetters /\ IsFile(e[2]) /\ IsRank(e[3])

IsHintedMove(e) ==
    /\ Len(e) = 4
    /\ e[1] \in PieceLetters
    /\ IsFile(e[2]) \/ IsRank(e[2])
    /\ IsFile(e[3])
    /\ IsRank(e[4])

ExpectedMove(e) ==
    IF IsPawnMove(e) THEN Movement(PAWN, MOVE, SquareOf(e[1], e[2]), None, None, None)
    ELSE IF IsPieceMove(e) THEN Movement(e[1], MOVE, SquareOf(e[2], e[3]), None, None, None)
    ELSE Movement(e[1], MOVE, SquareOf(e[3], e[4]),
                  IF IsRank(e[2]) THEN <<RowOf(e[2])>> ELSE None,
                  IF IsFile(e[2]) THEN <<FileOf(e[2])>> ELSE None,
                  None)

\* C21: parse turns every move expression into a MOVE of the piece named,
\* to row 8 - digit and column letter - 'a'; the hint of a four-character
\* move becomes current_row = 8 - digit when it is a digit and
\* current_col = letter - 'a' when it is a letter, the other one being None.
C21_MoveExpressionConverted ==
    (parsed.called /\ (IsPawnMove(parsed.expr) \/ IsPieceMove(parsed.expr)
                       \/ IsHintedMove(parsed.expr)))
        => (parsed.outcome = "returns" /\ parsed.move = ExpectedMove(parsed.expr))

\* "Nbd2" has become KNIGHT, MOVE, (6, 3), current_col 1
C21_Witness ==
    /\ parsed.called
    /\ parsed.expr = <<"N", "b", "d", "2">>
    /\ parsed.move = Movement(KNIGHT, MOVE, <<6, 3>>, None, <<1>>, None)

Letters ==
    {"a", "b", "c", "d", "e", "f", "g", "h", "i", "n", "x",
     "B", "K", "N", "O", "P", "Q", "R", "Z"}

\* The expressions with a letter in the piece position, complete in every
\* other character: a piece's move "?f3", disambiguated move "?bd2",
\* capture "?xc6" (where a file letter stands for a pawn instead), move
\* with a check or checkmate suffix "?f3+", and promotion "d8=?"
IsMoveWithLetter(e) == Len(e) = 3 /\ e[1] \in Letters /\ IsFile(e[2]) /\ IsRank(e[3])

IsHintedMoveWithLetter(e) ==
    /\ Len(e) = 4
    /\ e[1] \in Letters
    /\ IsFile(e[2]) \/ IsRank(e[2])
    /\ IsFile(e[3])
    /\ IsRank(e[4])

IsCaptureWithLetter(e) ==
    /\ Len(e) = 4
    /\ e[1] \in Letters
    /\ ~IsFile(e[1])
    /\ e[2] = "x"
    /\ IsFile(e[3])
    /\ IsRank(e[4])

IsSuffixedWithLetter(e) ==
    /\ Len(e) = 4
    /\ e[1] \in Letters
    /\ IsFile(e[2])
    /\ IsRank(e[3])
    /\ e[4] \in {"+", "#"}

IsPromotionWithLetter(e) ==
    /\ Len(e) = 4
    /\ IsFile(e[1])
    /\ IsRank(e[2])
    /\ e[3] = "="
    /\ e[4] \in Letters

HasPieceLetter(e) ==
    \/ IsMoveWithLetter(e)
    \/ IsHintedMoveWithLetter(e)
    \/ IsCaptureWithLetter(e)
    \/ IsSuffixedWithLetter(e)
    \/ IsPromotionWithLetter(e)

PieceLetterOf(e) == IF IsPromotionWithLetter(e) THEN e[4] ELSE e[1]

\* C22: parse raises ValueError, and returns no Movement, for every
\* expression whose letter in the piece position is not one of P, R, N, B,
\* Q, K.
C22_UnknownPieceLetterRejected ==
    (parsed.called /\ HasPieceLetter(parsed.expr)
     /\ PieceLetterOf(parsed.expr) \notin PieceLetters)
        => parsed.outcome = "ValueError"

----------------------------------------------------------------------------
(* Game.play: properties of the most recent iteration of its loop. *)

Rejected == played.count > 0 /\ played.outcome # "returns"

\* C23: an input that is not applied, whether the parser or the board
\* rejects it, leaves the board and current_turn as they were, and the loop
\* goes on to prompt the same player again.
C23_RejectedInputRetried ==
    Rejected => (pieces = played.before /\ current_turn = played.turn /\ played.running)

\* C25: current_turn is WHITE before the first input, is switched once by
\* an iteration whose perform_movement returns, and is left alone by one
\* whose perform_movement raises InvalidMovement; the colours of the moves
\* applied alternate, WHITE first.
C25_TurnsAlternate ==
    /\ played.count = 0 => current_turn = WHITE
    /\ (played.count > 0 /\ played.outcome = "returns")
           => (current_turn # played.turn /\ current_turn = Opposing(played.turn))
    /\ (played.count > 0 /\ played.outcome = "InvalidMovement")
           => current_turn = played.turn
    /\ \A k \in 1..Len(played.applied) :
           played.applied[k] = (IF k % 2 = 1 THEN WHITE ELSE BLACK)

\* A move of each colour was applied, and then an input was refused
C25_Witness ==
    /\ Len(played.applied) = 2
    /\ played.outcome = "InvalidMovement"
    /\ current_turn = WHITE

----------------------------------------------------------------------------
(* Piece.get_path, Piece.move and Piece.get_possible_moves of             *)
(* src/models.py: further properties.                                     *)

\* C24: for a destination on the board get_path ends: it raises
\* InvalidMovement, or returns a path of at most 7 squares.
C24_PathEnds ==
    (glast.called /\ InBounds(glast.move.next_position))
        => \/ glast.status = "raises"
           \/ glast.status = "returns" /\ Len(glast.path) <= 7

\* The destinations a list of requests holds with action MOVE
MoveDestinations(moves) == {m.next_position : m \in {n \in moves : n.action = MOVE}}

\* The squares of the board move() accepts a MOVE to
AcceptedDestinations(p) ==
    {d \in Squares : ~Piece_move(p, Movement(p.category, MOVE, d, None, None, None)).raises}

\* C26: the destinations get_possible_moves lists with action MOVE are the
\* squares of the board that move() accepts a MOVE to.
C26_ListedIsAccepted ==
    mlast.called => MoveDestinations(mlast.moves) = AcceptedDestinations(piece)

\* C27: a move() whose destination is the square the piece stands on
\* raises InvalidMovement, whatever the kind of the piece.
C27_ZeroLengthRefused ==
    (plast.called /\ plast.move.next_position = plast.before.position) => plast.raises

\* C28: a move() call either raises InvalidMovement and leaves the position
\* as it was, or returns with the piece on the requested destination; it
\* does not return with the piece elsewhere.
C28_MovesOrRaises ==
    plast.called
        => \/ plast.raises /\ piece.position = plast.before.position
           \/ ~plast.raises /\ piece.position = plast.move.next_position

----------------------------------------------------------------------------
(* Board.perform_movement: what every sequence of calls preserves. *)

\* C30: whatever the requests, destinations outside the grid included,
\* every piece of the board stands on a square of the grid.
C30_PiecesStayOnTheGrid ==
    \A i \in 1..Len(pieces) : InBounds(pieces[i].position)

\* A Rook on the bottom row was asked to go one row below the grid, along
\* its own file, and the call raised InvalidMovement
C30_Witness ==
    /\ last.called
    /\ last.move.category = ROOK
    /\ last.move.action = MOVE
    /\ NoHint(last.move)
    /\ last.move.next_position[1] = 8
    /\ \E i \in 1..Len(last.before) :
           /\ last.before[i].category = ROOK
           /\ last.before[i].color = last.color
           /\ last.before[i].position = <<7, last.move.next_position[2]>>
    /\ last.outcome = "InvalidMovement"

Kings(color) ==
    {i \in 1..Len(pieces) : pieces[i].category = KING /\ pieces[i].color = color}

\* C29: from the initial position, after every sequence of
\* perform_movement calls the board holds one King of each colour.
C29_OneKingEach ==
    \A color \in Color : Cardinality(Kings(color)) = 1

\* The initial position's 32 pieces, after a call that moved a King
C29_Witness ==
    /\ Len(pieces) = 32
    /\ last.called
    /\ last.outcome = "returns"
    /\ \E i \in 1..Len(pieces) :
           pieces[i].category = KING /\ pieces[i].position # last.before[i].position
    /\ \A color \in Color : Cardinality(Kings(color)) = 1

====
